---- MODULE Spec2Model ----
(***************************************************************************)
(* The denormalised counters of biostar/server/models.py and the records   *)
(* whose creation and deletion move them: votes, awards, comments,         *)
(* answers, post revisions and the tag association of a post.              *)
(*                                                                         *)
(* The database is the state.  One action is one call of a model method   *)
(* (or one save()/delete() of a record) together with every signal        *)
(* handler Django runs inside it.  A method works on objects it has read   *)
(* from the database: a read happens where the source reads (get_profile, *)
(* a foreign key access, objects.get) and a write where it calls save().   *)
(***************************************************************************)
EXTENDS Integers, Sequences, FiniteSets, Bags, TLC

(***************************************************************************)
(* Bounds of the model.                                                    *)
(***************************************************************************)
\* rows inserted over a run, all effect-bearing tables together
MaxRecords == 2

(***************************************************************************)
(* The fixture: users, posts, one question, badges.                        *)
(***************************************************************************)
Users == {"u1", "u2"}
Anonymous == "anon"
Actors == Users \cup {Anonymous}
Posts == {"p1", "p2", "p3"}
Questions == {"Q"}
NoUser == "nobody"

PostAuthor == [p \in Posts |-> IF p = "p2" THEN "u2" ELSE "u1"]

(***************************************************************************)
(* Vote types and the three scoring dictionaries.                          *)
(***************************************************************************)
VOTE_UP == 0
VOTE_DOWN == 1
VOTE_ACCEPT == 2
VOTE_TYPES == {VOTE_UP, VOTE_DOWN, VOTE_ACCEPT}

POST_SCORE == (VOTE_UP :> 1) @@ (VOTE_DOWN :> (0 - 1))
USER_REP == (VOTE_UP :> 10) @@ (VOTE_DOWN :> (0 - 2)) @@ (VOTE_ACCEPT :> 15)
VOTER_REP == (VOTE_DOWN :> (0 - 1)) @@ (VOTE_ACCEPT :> 2)

\* dict.get(key, default)
DictGet(d, k, default) == IF k \in DOMAIN d THEN d[k] ELSE default

BADGE_BRONZE == 0
BADGE_SILVER == 1
BADGE_GOLD == 2

VARIABLES
  profile,    \* UserProfile rows: user -> [score, bronze_badges, silver_badges, gold_badges]
  posts,      \* Post rows
  tagSet,     \* Post.tag_set, the many-to-many table: post -> set of Tag pks
  tags,       \* Tag rows in insertion order, the pk is the index: [name, count]
  questions,  \* Question rows: [answer_count, answer_accepted]
  answers,    \* Answer rows (one per post at most): [post, question, accepted]
  votes,      \* Vote rows, a bag of [author, post, type]
  badges,     \* Badge rows: [type, unique, count]
  awards,     \* Award rows, a bag of [badge, user, date]
  comments,   \* Comment rows, a bag of [parent, post]
  revisions,  \* PostRevision rows in insertion order
  cache,      \* the profiles held by the User objects of the instance in hand
  created,    \* number of rows inserted so far in the effect-bearing tables
  clock,      \* datetime.now()
  result,     \* what the last call returned or raised
  fetched,    \* the row the last query returned
  requests,   \* concurrent requests: where each is and the objects it holds
  subject,    \* the record whose apply() is exercised directly
  prior       \* the counters before the first of two direct apply() calls

vars == <<profile, posts, tagSet, tags, questions, answers, votes, badges,
          awards, comments, revisions, cache, created, clock, result, fetched,
          requests, subject, prior>>

(***************************************************************************)
(* Vote                                                                    *)
(***************************************************************************)
Vote(user, vote_type, post) == [author |-> user, post |-> post, type |-> vote_type]

score(v) == DictGet(POST_SCORE, v.type, 0)
reputation(v) == DictGet(USER_REP, v.type, 0)
voter_reputation(v) == DictGet(VOTER_REP, v.type, 0)

\* post.answer: the Answer row of a post, if there is one
AnswerOf(ans, p) == {a \in ans : a.post = p}

\* The rows apply() methods read and write, and the profile objects that the
\* User objects reached from the instance hold.
Store == [profile |-> profile, posts |-> posts, questions |-> questions,
          answers |-> answers, badges |-> badges, cache |-> cache]

Returned(s) == [store |-> s, raised |-> "none"]
Raised(s, exception) == [store |-> s, raised |-> exception]

\* User.get_profile() keeps the profile it fetched on the User object and
\* returns that object on every later call.  A Vote reaches two User objects,
\* self.author and self.post.author; an Award reaches one, self.user.  When
\* the voter is the post's author the two are one object (same) or two.
NoProfile == [kind |-> "none"]
ColdCache == [same |-> FALSE, author |-> NoProfile, post_author |-> NoProfile,
              user |-> NoProfile]

get_profile(s, object, user) ==
  IF s.cache[object] # NoProfile THEN s.cache[object] ELSE s.profile[user]

\* The object self.author is.
VoterObject(s, v) ==
  IF s.cache.same /\ v.author = s.posts[v.post].author THEN "post_author" ELSE "author"

\* prof = <object>.get_profile(); prof.score += amount; prof.save()
\* save() writes every field of the row from the object.
AddToProfileScore(s, object, user, amount) ==
  LET prof == get_profile(s, object, user)
      saved == [prof EXCEPT !.score = @ + amount]
  IN [s EXCEPT !.profile[user] = saved, !.cache[object] = saved]

\* The VOTE_ACCEPT branch of Vote.apply: self.post.answer raises DoesNotExist
\* for a post that is no answer; the two flags are assigned, never counted.
\* answer.save() sends post_save with created false, which applies nothing.
ApplyAccept(s, v, dir) ==
  IF AnswerOf(s.answers, v.post) = {}
  THEN Raised(s, "DoesNotExist")
  ELSE LET answer == CHOOSE a \in AnswerOf(s.answers, v.post) : TRUE
           flag == (dir = 1)
           answer2 == [answer EXCEPT !.accepted = flag]
           question2 == [s.questions[answer.question] EXCEPT !.answer_accepted = flag]
       IN Returned([s EXCEPT !.answers = (@ \ {answer}) \cup {answer2},
                             !.questions[answer.question] = question2])

\* Vote.apply(dir).  The author's profile is saved before the voter's profile
\* is asked for.
VoteApply(s, v, dir) ==
  LET s1 == IF reputation(v) # 0
            THEN AddToProfileScore(s, "post_author", s.posts[v.post].author,
                                   dir * reputation(v))
            ELSE s
      s2 == IF voter_reputation(v) # 0
            THEN AddToProfileScore(s1, VoterObject(s1, v), v.author,
                                   dir * voter_reputation(v))
            ELSE s1
      s3 == IF score(v) # 0
            THEN [s2 EXCEPT !.posts[v.post].score = @ + dir * score(v)]
            ELSE s2
  IN IF v.type = VOTE_ACCEPT THEN ApplyAccept(s3, v, dir) ELSE Returned(s3)

(***************************************************************************)
(* Award, Comment, Answer, PostRevision                                    *)
(***************************************************************************)
Award(badge, user, date) == [badge |-> badge, user |-> user, date |-> date]

\* Award.apply(dir): three independent tests of the badge type, one save of
\* the profile, then the badge's own count.
AwardApply(s, a, dir) ==
  LET type == s.badges[a.badge].type
      prof == get_profile(s, "user", a.user)
      prof1 == IF type = BADGE_BRONZE
               THEN [prof EXCEPT !.bronze_badges = @ + dir] ELSE prof
      prof2 == IF type = BADGE_SILVER
               THEN [prof1 EXCEPT !.silver_badges = @ + dir] ELSE prof1
      prof3 == IF type = BADGE_GOLD
               THEN [prof2 EXCEPT !.gold_badges = @ + dir] ELSE prof2
  IN Returned([s EXCEPT !.profile[a.user] = prof3, !.cache.user = prof3,
                        !.badges[a.badge].count = @ + dir])

Comment(parent, post) == [parent |-> parent, post |-> post]

\* Comment.apply(dir)
CommentApply(s, c, dir) ==
  Returned([s EXCEPT !.posts[c.parent].comment_count = @ + dir])

Answer(question, post) == [question |-> question, post |-> post, accepted |-> FALSE]

\* Answer.apply(dir)
AnswerApply(s, a, dir) ==
  Returned([s EXCEPT !.questions[a.question].answer_count = @ + dir])

\* PostRevision.apply changing the count of the object without saving it.
RevisionApplyUnsaved(s, r, dir) == Returned(s)

\* PostRevision.apply(dir)
RevisionApply(s, r, dir) ==
  Returned([s EXCEPT !.posts[r.post].revision_count = @ + dir])

\* MODELS_WITH_APPLY
MODELS_WITH_APPLY == {"Vote", "Award", "Comment", "Answer", "PostRevision"}

\* instance.apply(dir), by the model of the instance
Apply(kind, s, rec, dir) ==
  CASE kind = "Vote" -> VoteApply(s, rec, dir)
    [] kind = "Award" -> AwardApply(s, rec, dir)
    [] kind = "Comment" -> CommentApply(s, rec, dir)
    [] kind = "Answer" -> AnswerApply(s, rec, dir)
    [] kind = "PostRevision" -> RevisionApply(s, rec, dir)

(***************************************************************************)
(* Signal handlers of the effect-bearing models.                           *)
(***************************************************************************)
\* apply_instance without the test of created: every save applies.
apply_instance_every_save(kind, s, rec, kwargs) ==
  IF ~({"created", "raw"} \subseteq DOMAIN kwargs)
  THEN Raised(s, "TypeError")
  ELSE IF ~kwargs.raw
       THEN Apply(kind, s, rec, 1)
       ELSE Returned(s)

\* apply_instance without the test of raw: a created row is applied always.
apply_instance_raw_too(kind, s, rec, kwargs) ==
  IF ~({"created", "raw"} \subseteq DOMAIN kwargs)
  THEN Raised(s, "TypeError")
  ELSE IF kwargs.created
       THEN Apply(kind, s, rec, 1)
       ELSE Returned(s)

\* apply_instance(sender, instance, created, raw, ...): created and raw have
\* no default, so a signal that does not send them makes the call a TypeError.
apply_instance(kind, s, rec, kwargs) ==
  IF ~({"created", "raw"} \subseteq DOMAIN kwargs)
  THEN Raised(s, "TypeError")
  ELSE IF kwargs.created /\ ~kwargs.raw
       THEN Apply(kind, s, rec, 1)
       ELSE Returned(s)

\* unapply_instance(sender, instance, ...)
unapply_instance(kind, s, rec, kwargs) == Apply(kind, s, rec, 0 - 1)

\* post_delete connected to unapply_instance, as its docstring has it.
PostDeleteUnapplies == "unapply_instance"

\* The registration loop: both signals are connected to apply_instance.
PostSaveReceiver == "apply_instance"
PostDeleteReceiver == "apply_instance"

Receive(receiver, kind, s, rec, kwargs) ==
  IF kind \notin MODELS_WITH_APPLY
  THEN Returned(s)
  ELSE IF receiver = "apply_instance"
       THEN apply_instance(kind, s, rec, kwargs)
       ELSE unapply_instance(kind, s, rec, kwargs)

\* Model.save() sends post_save with created and raw; Model.delete() sends
\* post_delete with the instance alone.
PostSave(kind, s, rec, wasCreated, raw) ==
  Receive(PostSaveReceiver, kind, s, rec,
          [instance |-> rec, created |-> wasCreated, raw |-> raw])

PostDelete(kind, s, rec) ==
  Receive(PostDeleteReceiver, kind, s, rec, [instance |-> rec])

(***************************************************************************)
(* Saving and deleting rows of the effect-bearing tables.                  *)
(***************************************************************************)
Badges == {"b1", "b2", "b3"}
CommentPosts == {"p3"}
NoRecord == [kind |-> "none"]

\* The rows of a table, as a set.
Rows(kind) ==
  CASE kind = "Vote" -> BagToSet(votes)
    [] kind = "Award" -> BagToSet(awards)
    [] kind = "Comment" -> BagToSet(comments)
    [] kind = "Answer" -> answers
    [] kind = "PostRevision" -> {revisions[i] : i \in DOMAIN revisions}

\* A sequence without its first element equal to x.
RemoveFirst(seq, x) ==
  LET i == CHOOSE k \in DOMAIN seq : seq[k] = x /\ \A j \in 1..(k - 1) : seq[j] # x
  IN SubSeq(seq, 1, i - 1) \o SubSeq(seq, i + 1, Len(seq))

\* What a call leaves in the database.  A call that returns leaves what it
\* wrote.  A call that raises leaves either what it had written so far (each
\* save() commits by itself outside a managed transaction) or nothing (the
\* enclosing transaction is rolled back).
Outcomes(r, change) ==
  {[store |-> r.store, change |-> change]}
    \cup (IF r.raised = "none" THEN {} ELSE {[store |-> Store, change |-> "keep"]})

\* Writes the database: the rows in s and the insert or delete of rec.
Persist(s, kind, rec, change) ==
  /\ profile' = s.profile
  /\ posts' = s.posts
  /\ questions' = s.questions
  /\ badges' = s.badges
  /\ answers' = IF kind = "Answer" /\ change = "insert" THEN s.answers \cup {rec}
                ELSE IF kind = "Answer" /\ change = "delete" THEN s.answers \ {rec}
                ELSE s.answers
  /\ votes' = IF kind = "Vote" /\ change = "insert" THEN votes (+) SetToBag({rec})
              ELSE IF kind = "Vote" /\ change = "delete" THEN votes (-) SetToBag({rec})
              ELSE votes
  /\ awards' = IF kind = "Award" /\ change = "insert" THEN awards (+) SetToBag({rec})
               ELSE IF kind = "Award" /\ change = "delete" THEN awards (-) SetToBag({rec})
               ELSE awards
  /\ comments' = IF kind = "Comment" /\ change = "insert" THEN comments (+) SetToBag({rec})
                 ELSE IF kind = "Comment" /\ change = "delete" THEN comments (-) SetToBag({rec})
                 ELSE comments
  /\ revisions' = IF kind = "PostRevision" /\ change = "insert" THEN Append(revisions, rec)
                  ELSE IF kind = "PostRevision" /\ change = "delete" THEN RemoveFirst(revisions, rec)
                  ELSE revisions
  /\ created' = IF change = "insert" THEN created + 1 ELSE created

\* instance.save() of a new row: the INSERT, then post_save with created true.
SaveNew(kind, s, rec, raw, returns) ==
  LET r == PostSave(kind, s, rec, TRUE, raw)
  IN \E o \in Outcomes(r, "insert") :
       /\ Persist(o.store, kind, rec, o.change)
       /\ result' = IF r.raised = "none" THEN returns ELSE r.raised

\* instance.delete(): the DELETE, then post_delete.
DeleteRow(kind, rec, returns) ==
  LET r == PostDelete(kind, Store, rec)
  IN \E o \in Outcomes(r, "delete") :
       /\ Persist(o.store, kind, rec, o.change)
       /\ result' = IF r.raised = "none" THEN returns ELSE r.raised

\* The objects of a call are dropped with it: nothing is held between calls.
Frame == UNCHANGED <<tagSet, tags, cache, clock, fetched, requests, subject, prior>>
FrameButClock == UNCHANGED <<tagSet, tags, cache, fetched, requests, subject, prior>>

\* get_vote without the except clause: a missing row is DoesNotExist.
get_vote_uncaught(post, user, vote_type) ==
  IF user = Anonymous THEN "None"
  ELSE LET n == CopiesIn(Vote(user, vote_type, post), votes)
       IN IF n = 0 THEN "DoesNotExist"
          ELSE IF n = 1 THEN "found" ELSE "MultipleObjectsReturned"

\* Post.get_vote(user, vote_type): the vote, None, or the exception get() raises
\* when several rows match.
get_vote(post, user, vote_type) ==
  IF user = Anonymous THEN "None"
  ELSE LET n == CopiesIn(Vote(user, vote_type, post), votes)
       IN IF n = 0 THEN "None"
          ELSE IF n = 1 THEN "found" ELSE "MultipleObjectsReturned"

\* What the User objects of a new Vote(author=user, post=post) may hold: the
\* caller's user object has fetched its profile before the call or has not,
\* and it is the object post.author or (always, for another user) is not.
VoteCaches(s, user, post) ==
  {[ColdCache EXCEPT !.same = same,
                     ![IF same THEN "post_author" ELSE "author"] = held] :
     same \in {FALSE} \cup {user = s.posts[post].author},
     held \in {NoProfile, s.profile[user]}}

\* Post.add_vote(user, vote_type).  An anonymous user is no User instance: the
\* assignment to Vote.author raises ValueError before anything is saved.
AddVote ==
  \E user \in Actors, post \in Posts, vote_type \in VOTE_TYPES :
    /\ created < MaxRecords
    /\ IF user = Anonymous
       THEN /\ result' = "ValueError"
            /\ UNCHANGED <<profile, posts, questions, answers, badges, votes,
                           awards, comments, revisions, created>>
       ELSE \E held \in VoteCaches(Store, user, post) :
              SaveNew("Vote", [Store EXCEPT !.cache = held],
                      Vote(user, vote_type, post), FALSE, "vote")
    /\ Frame

\* Post.remove_vote(user, vote_type)
remove_vote(post, user, vote_type) ==
  /\ LET vote == get_vote(post, user, vote_type)
     IN IF vote = "found"
        THEN DeleteRow("Vote", Vote(user, vote_type, post), "True")
        ELSE /\ result' = IF vote = "None" THEN "False" ELSE vote
             /\ UNCHANGED <<profile, posts, questions, answers, badges, votes,
                            awards, comments, revisions, created>>
  /\ Frame

RemoveVote ==
  \E user \in Actors, post \in Posts, vote_type \in VOTE_TYPES :
    remove_vote(post, user, vote_type)

\* Answer(question=..., post=...).save(); a post has one Answer row at most.
CreateAnswer ==
  \E question \in Questions, post \in Posts :
    /\ created < MaxRecords
    /\ AnswerOf(answers, post) = {}
    /\ SaveNew("Answer", Store, Answer(question, post), FALSE, "saved")
    /\ Frame

\* Comment(parent=..., post=...).save()
CreateComment ==
  \E parent \in Posts, post \in CommentPosts :
    /\ created < MaxRecords
    /\ SaveNew("Comment", Store, Comment(parent, post), FALSE, "saved")
    /\ Frame

\* create_award, the pre_save receiver of Award: a missing date becomes now.
create_award(date) == IF date = 0 THEN clock ELSE date

\* Award(badge=..., user=...).save()
GrantAward ==
  \E badge \in Badges, user \in Users :
    /\ created < MaxRecords
    /\ SaveNew("Award", Store, Award(badge, user, create_award(0)), FALSE, "saved")
    /\ clock' = clock + 1
    /\ FrameButClock

\* save() of a row that exists: post_save with created false.
SaveAgain ==
  \E kind \in MODELS_WITH_APPLY :
    \E rec \in Rows(kind) :
      LET r == PostSave(kind, Store, rec, FALSE, FALSE)
      IN /\ Persist(r.store, kind, rec, "keep")
         /\ result' = "saved again"
         /\ Frame

\* delete() of a Vote, Award, Comment, Answer or PostRevision row.
DeleteRecord ==
  \E kind \in MODELS_WITH_APPLY :
    \E rec \in Rows(kind) :
      /\ DeleteRow(kind, rec, "deleted")
      /\ Frame

(***************************************************************************)
(* Tags and revisions of a post.  Texts are sequences of characters.       *)
(***************************************************************************)
SPACE == " "
CR == "CR"
LF == "LF"

\* str.split(' '): the pieces between single spaces, empty pieces included.
RECURSIVE SplitFrom(_, _, _, _)
SplitFrom(s, i, piece, pieces) ==
  IF i > Len(s) THEN Append(pieces, piece)
  ELSE IF s[i] = SPACE THEN SplitFrom(s, i + 1, <<>>, Append(pieces, piece))
  ELSE SplitFrom(s, i + 1, Append(piece, s[i]), pieces)

Split(s) == SplitFrom(s, 1, <<>>, <<>>)

\* str.splitlines(): lines end at \n, \r or \r\n; no line follows the last end.
RECURSIVE SplitLinesFrom(_, _, _, _)
SplitLinesFrom(s, i, line, lines) ==
  IF i > Len(s) THEN (IF line = <<>> THEN lines ELSE Append(lines, line))
  ELSE IF s[i] = CR /\ i < Len(s) /\ s[i + 1] = LF
       THEN SplitLinesFrom(s, i + 2, <<>>, Append(lines, line))
  ELSE IF s[i] = CR \/ s[i] = LF
       THEN SplitLinesFrom(s, i + 1, <<>>, Append(lines, line))
  ELSE SplitLinesFrom(s, i + 1, Append(line, s[i]), lines)

splitlines(s) == SplitLinesFrom(s, 1, <<>>, <<>>)

\* sep.join(pieces)
RECURSIVE join(_, _)
join(sep, pieces) ==
  IF pieces = <<>> THEN <<>>
  ELSE IF Len(pieces) = 1 THEN pieces[1]
  ELSE pieces[1] \o sep \o join(sep, Tail(pieces))

\* html.generate(content), the renderer
generate(content) == <<"<html>">> \o content

\* Post.get_tags()
get_tags(row) == Split(row.tag_string)

\* create_post, the pre_save receiver of Post: fills what is not set yet.
create_post(row, now) ==
  [row EXCEPT !.lastedit_user = IF @ = NoUser THEN row.author ELSE @,
              !.creation_date = IF @ = 0 THEN now ELSE @,
              !.lastedit_date = IF @ = 0 THEN now ELSE @]

\* for pk in a set of Tag pks: tag.count += by; tag.save()
RECURSIVE CountEach(_, _, _)
CountEach(tg, pks, by) ==
  IF pks = {} THEN tg
  ELSE LET pk == CHOOSE k \in pks : TRUE
       IN CountEach([tg EXCEPT ![pk].count = @ + by], pks \ {pk}, by)

\* tags_changed without the pre_clear branch: clearing counts nothing down.
tags_changed_no_clear(tg, current, action, pk_set) ==
  LET t1 == IF action = "post_add" THEN CountEach(tg, pk_set, 1) ELSE tg
      t2 == IF action = "post_delete" THEN CountEach(t1, pk_set, 0 - 1) ELSE t1
  IN t2

\* tags_changed, the m2m_changed receiver of Post.tag_set; current is the
\* instance's tag_set when the signal is sent.
tags_changed(tg, current, action, pk_set) ==
  LET t1 == IF action = "post_add" THEN CountEach(tg, pk_set, 1) ELSE tg
      t2 == IF action = "post_delete" THEN CountEach(t1, pk_set, 0 - 1) ELSE t1
      t3 == IF action = "pre_clear" THEN CountEach(t2, current, 0 - 1) ELSE t2
  IN t3

\* The loop of set_tags: Tag.objects.get(name=...) or a new Tag row, for each
\* name in turn.  The result holds the Tag rows and the pks collected.
RECURSIVE FetchOrCreate(_, _, _)
FetchOrCreate(tg, names, pks) ==
  IF names = <<>> THEN [tags |-> tg, pks |-> pks, raised |-> "none"]
  ELSE LET found == {k \in DOMAIN tg : tg[k].name = Head(names)}
       IN IF found = {}
          THEN FetchOrCreate(Append(tg, [name |-> Head(names), count |-> 0]),
                             Tail(names), Append(pks, Len(tg) + 1))
          ELSE IF Cardinality(found) = 1
          THEN FetchOrCreate(tg, Tail(names), Append(pks, CHOOSE k \in found : TRUE))
          ELSE [tags |-> tg, pks |-> pks, raised |-> "MultipleObjectsReturned"]

Range(seq) == {seq[i] : i \in DOMAIN seq}

\* Post.set_tags(tag_string) on the in-memory post self: the string is saved,
\* the association is cleared (pre_clear), each name is fetched or created, and
\* the rows not yet associated are added (post_add).
set_tags(self, post, tag_string, ts, tg) ==
  LET self1 == [self EXCEPT !.tag_string = tag_string]
      cleared == tags_changed(tg, ts[post], "pre_clear", {})
      ts1 == [ts EXCEPT ![post] = {}]
      got == FetchOrCreate(cleared, Split(tag_string), <<>>)
      new_ids == Range(got.pks) \ ts1[post]
      ts2 == [ts1 EXCEPT ![post] = @ \cup new_ids]
      added == tags_changed(got.tags, ts2[post], "post_add", new_ids)
  IN IF got.raised # "none"
     THEN [self |-> self1, tagSet |-> ts1, tags |-> got.tags, raised |-> got.raised]
     ELSE [self |-> self1, tagSet |-> ts2, tags |-> added, raised |-> "none"]

TagPosts == {"p1", "p2"}
TagStrings == {<<"a">>, <<"a", " ", "b">>, <<"a", " ", "a">>}

\* post.set_tags(tag_string), called directly
SetTags ==
  \E post \in TagPosts, tag_string \in TagStrings :
    LET r == set_tags(posts[post], post, tag_string, tagSet, tags)
    IN /\ posts' = [posts EXCEPT ![post] = create_post(r.self, clock)]
       /\ tagSet' = r.tagSet
       /\ tags' = r.tags
       /\ result' = r.raised
       /\ UNCHANGED <<profile, questions, answers, votes, badges, awards, comments,
                      revisions, cache, created, clock, fetched, requests, subject,
                      prior>>

PostRevision(post, content, tag_string, title, author, date) ==
  [post |-> post, content |-> content, tag_string |-> tag_string,
   title |-> title, author |-> author, date |-> date]

\* What a caller of create_revision passes; <<>>, NoUser and 0 stand for an
\* argument left out (or empty), which the method replaces by the post's own.
RevisionInputs ==
  { [content |-> <<>>, title |-> <<>>, tag_string |-> <<>>, author |-> NoUser, date |-> 0],
    [content |-> <<"x", CR, LF, "y">>, title |-> <<"T">>, tag_string |-> <<"a", " ", "b">>,
     author |-> "u2", date |-> 0],
    [content |-> <<"z">>, title |-> <<>>, tag_string |-> <<"a">>, author |-> NoUser, date |-> 1] }

Or(given, own, none) == IF given = none THEN own ELSE given

\* Post.create_revision(content, title, tag_string, author, date)
create_revision(self, post, in, now, s, ts, tg) ==
  LET content == Or(in.content, self.content, <<>>)
      title == Or(in.title, self.title, <<>>)
      tag_string == Or(in.tag_string, self.tag_string, <<>>)
      author == Or(in.author, self.author, NoUser)
      date == Or(in.date, now, 0)
      revision == PostRevision(post, content, tag_string, title, author, date)
      saved == PostSave("PostRevision", s, revision, TRUE, FALSE)
      self1 == saved.store.posts[post]
      unix == join(<<LF>>, splitlines(content))
      self2 == [self1 EXCEPT !.lastedit_date = date, !.lastedit_user = author,
                             !.html = generate(unix), !.content = unix, !.title = title]
      tagged == set_tags(self2, post, tag_string, ts, tg)
  IN [revision |-> revision, self |-> tagged.self, tagSet |-> tagged.tagSet,
      tags |-> tagged.tags, store |-> saved.store, raised |-> tagged.raised]

CreateRevision ==
  \E post \in TagPosts, in \in RevisionInputs :
    /\ created < MaxRecords
    /\ LET r == create_revision(posts[post], post, in, clock, Store, tagSet, tags)
       IN /\ posts' = [r.store.posts EXCEPT ![post] = create_post(r.self, clock)]
          /\ revisions' = Append(revisions, r.revision)
          /\ tagSet' = r.tagSet
          /\ tags' = r.tags
          /\ result' = r.raised
    /\ created' = created + 1
    /\ clock' = IF in.date = 0 THEN clock + 1 ELSE clock
    /\ UNCHANGED <<profile, questions, answers, votes, badges, awards, comments,
                   cache, fetched, requests, subject, prior>>

\* Post.current_revision(): self.revisions.order_by('date')[0], the first row
\* in ascending order of date.  Rows of one date come in an order the database
\* chooses; no row at all makes the index raise IndexError.
current_revision(post) ==
  LET mine == {r \in Range(revisions) : r.post = post}
  IN {r \in mine : \A o \in mine : r.date <= o.date}

CurrentRevision ==
  \E post \in TagPosts :
    /\ IF current_revision(post) = {}
       THEN /\ result' = "IndexError"
            /\ UNCHANGED fetched
       ELSE /\ result' = "revision"
            /\ fetched' \in current_revision(post)
    /\ UNCHANGED <<profile, posts, tagSet, tags, questions, answers, votes, badges,
                   awards, comments, revisions, cache, created, clock, requests,
                   subject, prior>>

\* The rows a fixture may hold.
RawRecords(kind) ==
  CASE kind = "Vote" -> {Vote(u, t, p) : u \in Users, t \in VOTE_TYPES, p \in Posts}
    [] kind = "Award" -> {Award(b, u, 1) : b \in Badges, u \in Users}
    [] kind = "Comment" -> {Comment(p, c) : p \in Posts, c \in CommentPosts}
    [] kind = "Answer" -> {[Answer(q, p) EXCEPT !.accepted = f] :
                             q \in Questions, p \in Posts, f \in BOOLEAN}
    [] kind = "PostRevision" ->
         {PostRevision(p, <<"z">>, <<"a">>, <<>>, posts[p].author, 1) : p \in TagPosts}

\* A row of a fixture saved in a raw import: the INSERT, then post_save with
\* created true and raw true.
LoadRaw ==
  \E kind \in MODELS_WITH_APPLY :
    \E rec \in RawRecords(kind) :
      /\ created < MaxRecords
      /\ kind = "Answer" => AnswerOf(answers, rec.post) = {}
      /\ SaveNew(kind, Store, rec, TRUE, "loaded")
      /\ Frame

(***************************************************************************)
(* Two requests served at once.  Each calls post.add_vote(user, vote_type) *)
(* on a Post object it has fetched; every statement that reaches the       *)
(* database is a step of its own, and the steps of the two interleave.     *)
(***************************************************************************)
Requests == {"r1", "r2"}
Idle == [pc |-> "idle"]
ConcurrentVoteTypes == {VOTE_UP, VOTE_DOWN}

ConcurrentFrame ==
  UNCHANGED <<tagSet, tags, questions, answers, badges, awards, comments, revisions,
              cache, clock, result, fetched, subject, prior>>

\* The view fetches the post: self of add_vote.
FetchPost(r) ==
  \E user \in Users, post \in Posts, vote_type \in ConcurrentVoteTypes :
    /\ requests[r].pc = "idle"
    /\ requests' = [requests EXCEPT ![r] =
         [pc |-> "vote.save", vote |-> Vote(user, vote_type, post), post |-> posts[post]]]
    /\ UNCHANGED <<profile, posts, votes, created>>
    /\ ConcurrentFrame

\* vote.save(): the INSERT; post_save then runs Vote.apply in this request.
InsertVote(r) ==
  /\ requests[r].pc = "vote.save"
  /\ created < MaxRecords
  /\ votes' = votes (+) SetToBag({requests[r].vote})
  /\ created' = created + 1
  /\ requests' = [requests EXCEPT ![r].pc = "author.get_profile"]
  /\ UNCHANGED <<profile, posts>>
  /\ ConcurrentFrame

\* prof = self.post.author.get_profile(), and prof = self.author.get_profile()
ReadProfile(r) ==
  \E who \in {"author", "voter"} :
    LET v == requests[r].vote
        user == IF who = "author" THEN requests[r].post.author ELSE v.author
    IN /\ requests[r].pc = who \o ".get_profile"
       /\ requests' = [requests EXCEPT ![r] =
            [pc |-> who \o ".save", vote |-> v, post |-> requests[r].post,
             prof |-> profile[user]]]
       /\ UNCHANGED <<profile, posts, votes, created>>
       /\ ConcurrentFrame

\* prof.score += dir * self.reputation(); prof.save(), and the same with
\* voter_reputation(); then the test of the next if.
WriteProfile(r) ==
  \E who \in {"author", "voter"} :
    LET v == requests[r].vote
        user == IF who = "author" THEN requests[r].post.author ELSE v.author
        amount == IF who = "author" THEN reputation(v) ELSE voter_reputation(v)
        after == IF who = "author" /\ voter_reputation(v) # 0 THEN "voter.get_profile"
                 ELSE IF score(v) # 0 THEN "post.save" ELSE "done"
    IN /\ requests[r].pc = who \o ".save"
       /\ profile' = [profile EXCEPT ![user] =
                        [requests[r].prof EXCEPT !.score = @ + amount]]
       /\ requests' = [requests EXCEPT ![r].pc = after]
       /\ UNCHANGED <<posts, votes, created>>
       /\ ConcurrentFrame

\* self.post.score += dir * self.score(); self.post.save()
WritePost(r) ==
  LET v == requests[r].vote
  IN /\ requests[r].pc = "post.save"
     /\ posts' = [posts EXCEPT ![v.post] =
                    [requests[r].post EXCEPT !.score = @ + score(v)]]
     /\ requests' = [requests EXCEPT ![r].pc = "done"]
     /\ UNCHANGED <<profile, votes, created>>
     /\ ConcurrentFrame

NextConcurrent ==
  \E r \in Requests :
    \/ FetchPost(r)
    \/ InsertVote(r)
    \/ ReadProfile(r)
    \/ WriteProfile(r)
    \/ WritePost(r)

(***************************************************************************)
(* Two requests calling post.set_tags(tag_string) at once.  The statements *)
(* of set_tags are steps: the save and the clear, each Tag.objects.get,    *)
(* each tag.save() of a new Tag, and the add.                              *)
(***************************************************************************)
TagFrame ==
  UNCHANGED <<profile, questions, answers, votes, badges, awards, comments,
              revisions, cache, created, clock, result, fetched, subject, prior>>

\* self.tag_string = tag_string; self.save(); self.tag_set.clear()
ClearTags(r) ==
  \E post \in TagPosts, tag_string \in TagStrings :
    /\ requests[r].pc = "idle"
    /\ posts' = [posts EXCEPT ![post] =
                   create_post([posts[post] EXCEPT !.tag_string = tag_string], clock)]
    /\ tags' = tags_changed(tags, tagSet[post], "pre_clear", {})
    /\ tagSet' = [tagSet EXCEPT ![post] = {}]
    /\ requests' = [requests EXCEPT ![r] =
         [pc |-> "get", post |-> post, names |-> Split(tag_string), tags |-> <<>>]]
    /\ TagFrame

\* Tag.objects.get(name=tag_name): the row, DoesNotExist (caught), or
\* MultipleObjectsReturned, which ends the call.
GetTag(r) ==
  /\ requests[r].pc = "get"
  /\ requests[r].names # <<>>
  /\ LET found == {k \in DOMAIN tags : tags[k].name = Head(requests[r].names)}
     IN requests' = [requests EXCEPT ![r] =
          IF found = {} THEN [@ EXCEPT !.pc = "create"]
          ELSE IF Cardinality(found) = 1
          THEN [@ EXCEPT !.names = Tail(@),
                         !.tags = Append(@, CHOOSE k \in found : TRUE)]
          ELSE [@ EXCEPT !.pc = "MultipleObjectsReturned"]]
  /\ UNCHANGED <<posts, tagSet, tags>>
  /\ TagFrame

\* tag = Tag(name=tag_name); tag.save(); tags.append(tag)
CreateTag(r) ==
  /\ requests[r].pc = "create"
  /\ tags' = Append(tags, [name |-> Head(requests[r].names), count |-> 0])
  /\ requests' = [requests EXCEPT ![r] =
       [@ EXCEPT !.pc = "get", !.names = Tail(@), !.tags = Append(@, Len(tags) + 1)]]
  /\ UNCHANGED <<posts, tagSet>>
  /\ TagFrame

\* self.tag_set.add(*tags), with post_add for the rows not yet associated
AddTags(r) ==
  /\ requests[r].pc = "get"
  /\ requests[r].names = <<>>
  /\ LET post == requests[r].post
         new_ids == Range(requests[r].tags) \ tagSet[post]
         ts == [tagSet EXCEPT ![post] = @ \cup new_ids]
     IN /\ tagSet' = ts
        /\ tags' = tags_changed(tags, ts[post], "post_add", new_ids)
  /\ requests' = [requests EXCEPT ![r].pc = "done"]
  /\ UNCHANGED posts
  /\ TagFrame

NextConcurrentTags ==
  \E r \in Requests : ClearTags(r) \/ GetTag(r) \/ CreateTag(r) \/ AddTags(r)

(***************************************************************************)
(* Initial state: two users, three posts, question Q with the answers p1   *)
(* and p2 (p3 is no answer yet), three badges, nothing voted or awarded.   *)
(***************************************************************************)
NewProfile == [score |-> 0, bronze_badges |-> 0, silver_badges |-> 0, gold_badges |-> 0]

NewPost(author) ==
  [author |-> author, content |-> <<>>, html |-> <<>>, title |-> <<>>,
   tag_string |-> <<>>, score |-> 0, comment_count |-> 0, revision_count |-> 0,
   creation_date |-> 1, lastedit_date |-> 1, lastedit_user |-> author]

BadgeRows ==
  [b \in Badges |->
     [type |-> IF b = "b1" THEN BADGE_BRONZE ELSE IF b = "b2" THEN BADGE_SILVER ELSE BADGE_GOLD,
      unique |-> (b # "b2"), count |-> 0]]

Init ==
  /\ profile = [u \in Users |-> NewProfile]
  /\ posts = [p \in Posts |-> NewPost(PostAuthor[p])]
  /\ tagSet = [p \in Posts |-> {}]
  /\ tags = <<>>
  /\ questions = [q \in Questions |-> [answer_count |-> 2, answer_accepted |-> FALSE]]
  /\ answers = {Answer("Q", "p1"), Answer("Q", "p2")}
  /\ votes = EmptyBag
  /\ badges = BadgeRows
  /\ awards = EmptyBag
  /\ comments = EmptyBag
  /\ revisions = <<>>
  /\ cache = ColdCache
  /\ created = 0
  /\ clock = 2
  /\ result = "init"
  /\ fetched = NoRecord
  /\ requests = [r \in Requests |-> Idle]
  /\ subject = NoRecord
  /\ prior = NoRecord

(***************************************************************************)
(* apply() called directly, twice, on one record: apply(1), then apply(-1). *)
(* The starting state is any state of the counters and flags.              *)
(***************************************************************************)
\* The denormalised counters of a store.
Counters(s) ==
  [score |-> [u \in Users |-> s.profile[u].score],
   bronze |-> [u \in Users |-> s.profile[u].bronze_badges],
   silver |-> [u \in Users |-> s.profile[u].silver_badges],
   gold |-> [u \in Users |-> s.profile[u].gold_badges],
   post_score |-> [p \in Posts |-> s.posts[p].score],
   comment_count |-> [p \in Posts |-> s.posts[p].comment_count],
   revision_count |-> [p \in Posts |-> s.posts[p].revision_count],
   answer_count |-> [q \in Questions |-> s.questions[q].answer_count],
   badge_count |-> [b \in Badges |-> s.badges[b].count]]

Subjects ==
  {[kind |-> "Vote", rec |-> Vote(u, t, p)] : u \in Users, t \in VOTE_TYPES, p \in Posts}
    \cup {[kind |-> "Award", rec |-> Award(b, u, 1)] : b \in Badges, u \in Users}
    \cup {[kind |-> "Comment", rec |-> Comment(p, "p3")] : p \in Posts}
    \cup {[kind |-> "Answer", rec |-> Answer("Q", p)] : p \in {"p1"}}
    \cup {[kind |-> "PostRevision", rec |-> PostRevision(p, <<>>, <<>>, <<>>, PostAuthor[p], 1)] :
            p \in TagPosts}

InitApply ==
  \E sub \in Subjects, sc \in [Users -> {0, 7}], base \in {0, 3}, flag \in BOOLEAN :
    /\ profile = [u \in Users |->
                    [score |-> sc[u], bronze_badges |-> base,
                     silver_badges |-> base, gold_badges |-> base]]
    /\ posts = [p \in Posts |->
                  [NewPost(PostAuthor[p]) EXCEPT !.score = base, !.comment_count = base,
                                                 !.revision_count = base]]
    /\ tagSet = [p \in Posts |-> {}]
    /\ tags = <<>>
    /\ questions = [q \in Questions |-> [answer_count |-> 2 + base, answer_accepted |-> flag]]
    /\ answers = {Answer("Q", "p1"), [Answer("Q", "p2") EXCEPT !.accepted = flag]}
    /\ votes = IF sub.kind = "Vote" THEN SetToBag({sub.rec}) ELSE EmptyBag
    /\ badges = [b \in Badges |-> [BadgeRows[b] EXCEPT !.count = base]]
    /\ awards = IF sub.kind = "Award" THEN SetToBag({sub.rec}) ELSE EmptyBag
    /\ comments = IF sub.kind = "Comment" THEN SetToBag({sub.rec}) ELSE EmptyBag
    /\ revisions = IF sub.kind = "PostRevision" THEN <<sub.rec>> ELSE <<>>
    /\ cache \in IF sub.kind = "Vote"
                 THEN {[ColdCache EXCEPT !.same = same] :
                         same \in {FALSE} \cup {sub.rec.author = PostAuthor[sub.rec.post]}}
                 ELSE {ColdCache}
    /\ created = 0
    /\ clock = 2
    /\ result = "init"
    /\ fetched = NoRecord
    /\ requests = [r \in Requests |-> Idle]
    /\ subject = sub
    /\ prior = NoRecord

\* subject.apply(dir); every save() inside it is kept, also when it raises,
\* and the instance keeps the objects it has fetched.
CallApply(dir) ==
  LET r == Apply(subject.kind, Store, subject.rec, dir)
  IN /\ profile' = r.store.profile
     /\ posts' = r.store.posts
     /\ questions' = r.store.questions
     /\ answers' = r.store.answers
     /\ badges' = r.store.badges
     /\ cache' = r.store.cache
     /\ UNCHANGED <<tagSet, tags, votes, awards, comments, revisions, created,
                    clock, fetched, requests, subject>>

ApplyOnce ==
  /\ subject # NoRecord
  /\ result = "init"
  /\ prior' = Counters(Store)
  /\ result' = "applied"
  /\ CallApply(1)

UnapplyOnce ==
  /\ result = "applied"
  /\ result' = "unapplied"
  /\ CallApply(0 - 1)
  /\ UNCHANGED prior

NextApply == ApplyOnce \/ UnapplyOnce

SpecApply == InitApply /\ [][NextApply]_vars

NextCreate ==
  \/ AddVote
  \/ CreateAnswer
  \/ CreateComment
  \/ GrantAward
  \/ CreateRevision
  \/ SaveAgain

SpecCreate == Init /\ [][NextCreate]_vars

NextVote == AddVote \/ RemoveVote \/ CreateAnswer

SpecVote == Init /\ [][NextVote]_vars

NextTags == SetTags \/ CreateRevision

SpecTags == Init /\ [][NextTags]_vars

NextImport == LoadRaw \/ AddVote \/ GrantAward

SpecImport == Init /\ [][NextImport]_vars

SpecConcurrent == Init /\ [][NextConcurrent]_vars

SpecConcurrentTags == Init /\ [][NextConcurrentTags]_vars

NextRevisions == CreateRevision \/ CurrentRevision

SpecRevisions == Init /\ [][NextRevisions]_vars

NextAward == GrantAward \/ DeleteRecord \/ SaveAgain

SpecAward == Init /\ [][NextAward]_vars

Next ==
  \/ AddVote
  \/ RemoveVote
  \/ CreateAnswer
  \/ CreateComment
  \/ GrantAward
  \/ SetTags
  \/ CreateRevision
  \/ CurrentRevision
  \/ LoadRaw
  \/ SaveAgain
  \/ DeleteRecord

Spec == Init /\ [][Next]_vars

NextLedger ==
  \/ AddVote
  \/ CreateAnswer
  \/ CreateComment
  \/ GrantAward
  \/ CreateRevision
  \/ SaveAgain
  \/ DeleteRecord

SpecLedger == Init /\ [][NextLedger]_vars

(***************************************************************************)
(* The effects the specification's tables give each record, as changes of  *)
(* the counters.                                                           *)
(***************************************************************************)
TablePostScore(t) == CASE t = VOTE_UP -> 1 [] t = VOTE_DOWN -> 0 - 1 [] OTHER -> 0
TableAuthorRep(t) == CASE t = VOTE_UP -> 10 [] t = VOTE_DOWN -> 0 - 2 [] OTHER -> 15
TableVoterRep(t) == CASE t = VOTE_UP -> 0 [] t = VOTE_DOWN -> 0 - 1 [] OTHER -> 2

One(cond) == IF cond THEN 1 ELSE 0

TableEffect(kind, rec) ==
  [score |-> [u \in Users |->
      IF kind = "Vote"
      THEN One(u = PostAuthor[rec.post]) * TableAuthorRep(rec.type)
             + One(u = rec.author) * TableVoterRep(rec.type)
      ELSE 0],
   bronze |-> [u \in Users |->
      One(kind = "Award" /\ u = rec.user /\ BadgeRows[rec.badge].type = BADGE_BRONZE)],
   silver |-> [u \in Users |->
      One(kind = "Award" /\ u = rec.user /\ BadgeRows[rec.badge].type = BADGE_SILVER)],
   gold |-> [u \in Users |->
      One(kind = "Award" /\ u = rec.user /\ BadgeRows[rec.badge].type = BADGE_GOLD)],
   post_score |-> [p \in Posts |->
      IF kind = "Vote" THEN One(p = rec.post) * TablePostScore(rec.type) ELSE 0],
   comment_count |-> [p \in Posts |-> One(kind = "Comment" /\ p = rec.parent)],
   revision_count |-> [p \in Posts |-> One(kind = "PostRevision" /\ p = rec.post)],
   answer_count |-> [q \in Questions |-> One(kind = "Answer" /\ q = rec.question)],
   badge_count |-> [b \in Badges |-> One(kind = "Award" /\ b = rec.badge)]]

\* The counters c moved n times by the effect d.
Moved(c, d, n) ==
  [f \in DOMAIN c |-> [x \in DOMAIN c[f] |-> c[f][x] + n * d[f][x]]]

\* How many rows equal to rec a table holds (an Answer row is the row of its
\* post, whatever its accepted flag).
RowCount(kind, rec) ==
  CASE kind = "Vote" -> CopiesIn(rec, votes)
    [] kind = "Award" -> CopiesIn(rec, awards)
    [] kind = "Comment" -> CopiesIn(rec, comments)
    [] kind = "Answer" -> Cardinality(AnswerOf(answers, rec.post))
    [] kind = "PostRevision" -> Cardinality({i \in DOMAIN revisions : revisions[i] = rec})

\* The sum of f over the rows of a bag, each row counted as often as it occurs.
RECURSIVE SumOver(_, _, _)
SumOver(bag, rows, f) ==
  IF rows = {} THEN 0
  ELSE LET r == CHOOSE x \in rows : TRUE
       IN CopiesIn(r, bag) * f[r] + SumOver(bag, rows \ {r}, f)

(***************************************************************************)
(* C1: when an effect-bearing record is deleted, apply(-1) runs once for   *)
(* it: every step that removes a row of Vote, Award, Comment, Answer or    *)
(* PostRevision moves every counter back by that row's effect.             *)
(***************************************************************************)
C1_DeleteUndoesEffects ==
  [][\A kind \in MODELS_WITH_APPLY : \A rec \in Rows(kind) :
       RowCount(kind, rec)' = RowCount(kind, rec) - 1
         => Counters(Store)' = Moved(Counters(Store), TableEffect(kind, rec), 0 - 1)]_vars

\* The counters after one apply(1) of rec on the present rows, for each state
\* the instance's objects may be in.
AppliedOnce(kind, rec) ==
  {Counters(Apply(kind, [Store EXCEPT !.cache = held], rec, 1).store) :
     held \in IF kind = "Vote" THEN VoteCaches(Store, rec.author, rec.post)
              ELSE {ColdCache}}

(***************************************************************************)
(* C2: a record created in normal flow has apply(+1) run exactly once: the *)
(* step that inserts a row leaves the counters where one apply(1) of that  *)
(* row puts them, and a step that inserts nothing (a later save of an      *)
(* existing record) leaves every counter as it was.                        *)
(***************************************************************************)
C2_AppliedOnceOnCreate ==
  [][/\ \A kind \in MODELS_WITH_APPLY : \A rec \in Rows(kind)' :
          RowCount(kind, rec)' = RowCount(kind, rec) + 1
            => Counters(Store)' \in AppliedOnce(kind, rec)
     /\ created' = created => Counters(Store)' = Counters(Store)]_vars

\* A vote exists, has been saved a second time, and counts once.
C2_Witness ==
  /\ result = "saved again"
  /\ votes = SetToBag({Vote("u2", VOTE_UP, "p1")})
  /\ posts["p1"].score = 1
  /\ profile["u1"].score = 10

(***************************************************************************)
(* C3: apply(+1) followed by apply(-1) on the same record leaves every     *)
(* counter at the value it had before, for every record type and every     *)
(* starting state.                                                         *)
(***************************************************************************)
C3_ApplyUnapplyRestores ==
  result = "unapplied" => Counters(Store) = prior

(***************************************************************************)
(* C4: casting a vote changes the post's score, the post author's          *)
(* reputation and the voter's reputation by the scoring table, both on the *)
(* same profile when the voter is the author, and no other counter.        *)
(***************************************************************************)
C4_CastFollowsScoringTable ==
  [][\A v \in BagToSet(votes') :
       CopiesIn(v, votes') = CopiesIn(v, votes) + 1 =>
         /\ \A p \in Posts :
              /\ posts'[p].score = posts[p].score + One(p = v.post) * TablePostScore(v.type)
              /\ posts'[p].comment_count = posts[p].comment_count
              /\ posts'[p].revision_count = posts[p].revision_count
         /\ \A u \in Users :
              /\ profile'[u].score = profile[u].score
                   + One(u = posts[v.post].author) * TableAuthorRep(v.type)
                   + One(u = v.author) * TableVoterRep(v.type)
              /\ profile'[u].bronze_badges = profile[u].bronze_badges
              /\ profile'[u].silver_badges = profile[u].silver_badges
              /\ profile'[u].gold_badges = profile[u].gold_badges
         /\ \A q \in Questions : questions'[q].answer_count = questions[q].answer_count
         /\ badges' = badges]_vars

(***************************************************************************)
(* C5: each post's score is the sum of score() over the votes that exist   *)
(* on it, after any casts and retractions.                                 *)
(***************************************************************************)
VoteScoreOn(p) ==
  LET f == [v \in BagToSet(votes) |-> One(v.post = p) * TablePostScore(v.type)]
  IN SumOver(votes, BagToSet(votes), f)

C5_PostScoreIsSumOfVotes ==
  \A p \in Posts : posts[p].score = VoteScoreOn(p)

(***************************************************************************)
(* C6: each user's reputation is the sum of the author effects of the      *)
(* existing votes on that user's posts and the voter effects of the        *)
(* existing votes that user cast.                                          *)
(***************************************************************************)
VoteReputationOf(u) ==
  LET f == [v \in BagToSet(votes) |->
                One(posts[v.post].author = u) * TableAuthorRep(v.type)
                  + One(v.author = u) * TableVoterRep(v.type)]
  IN SumOver(votes, BagToSet(votes), f)

C6_ReputationIsSumOfVotes ==
  \A u \in Users : profile[u].score = VoteReputationOf(u)

(***************************************************************************)
(* C7: every tag's count is the number of posts whose tag set holds it,    *)
(* after any calls of set_tags, direct or through create_revision.         *)
(***************************************************************************)
C7_TagCountIsUsage ==
  \A k \in DOMAIN tags : tags[k].count = Cardinality({p \in Posts : k \in tagSet[p]})

TagCountOf(name) ==
  LET rows == {k \in DOMAIN tags : tags[k].name = name}
  IN IF rows = {} THEN 0 - 1 ELSE tags[CHOOSE k \in rows : TRUE].count

\* p1 went from "a b" to "a" while p2 holds "a a": b is used by no post, a by two.
C7_Witness ==
  /\ posts["p1"].tag_string = <<"a">>
  /\ posts["p2"].tag_string = <<"a", " ", "a">>
  /\ TagCountOf(<<"b">>) = 0
  /\ TagCountOf(<<"a">>) = 2

(***************************************************************************)
(* C8: a question never has more than one accepted answer.                 *)
(***************************************************************************)
C8_AtMostOneAccepted ==
  \A q \in Questions : Cardinality({a \in answers : a.question = q /\ a.accepted}) <= 1

(***************************************************************************)
(* C9: a unique badge is never awarded twice to the same user: the second  *)
(* grant is rejected and leaves no second Award row.                       *)
(***************************************************************************)
AwardsHeld(b, u) ==
  LET f == [a \in BagToSet(awards) |-> One(a.badge = b /\ a.user = u)]
  IN SumOver(awards, BagToSet(awards), f)

C9_UniqueBadgeHeldOnce ==
  \A b \in Badges : \A u \in Users : badges[b].unique => AwardsHeld(b, u) <= 1

(***************************************************************************)
(* C10: create_revision adds one to the post's revision_count and appends  *)
(* one snapshot, leaving the earlier snapshots as they were, so the        *)
(* revision_count of a post is the number of its revisions.                *)
(***************************************************************************)
RevisionsOf(p) == {i \in DOMAIN revisions : revisions[i].post = p}

C10_RevisionCountExact ==
  /\ [](\A p \in Posts : posts[p].revision_count = Cardinality(RevisionsOf(p)))
  /\ [][revisions' # revisions =>
          /\ Len(revisions') = Len(revisions) + 1
          /\ SubSeq(revisions', 1, Len(revisions)) = revisions
          /\ \A p \in Posts :
               posts'[p].revision_count
                 = posts[p].revision_count + One(p = revisions'[Len(revisions')].post)]_vars

\* Two revisions of p1, the first one still what it was when created.
C10_Witness ==
  /\ Len(revisions) = 2
  /\ revisions[1].post = "p1" /\ revisions[2].post = "p1"
  /\ revisions[1].content = <<"x", CR, LF, "y">>
  /\ posts["p1"].content = <<"z">>
  /\ posts["p1"].revision_count = 2

(***************************************************************************)
(* C11: current_revision returns the revision of the post with the latest  *)
(* date, whatever the order in which the revisions were created.           *)
(***************************************************************************)
C11_CurrentRevisionIsLatest ==
  result = "revision" =>
    \A i \in RevisionsOf(fetched.post) : revisions[i].date <= fetched.date

\* The number of Award rows of user u whose badge has the given type.
AwardsOfType(u, type) ==
  SumOver(awards, BagToSet(awards),
          [a \in BagToSet(awards) |-> One(a.user = u /\ badges[a.badge].type = type)])

\* The number of Award rows of badge b.
AwardsOfBadge(b) ==
  SumOver(awards, BagToSet(awards), [a \in BagToSet(awards) |-> One(a.badge = b)])

(***************************************************************************)
(* C12: after any grants and deletions of Awards, each badge's count is    *)
(* the number of Award rows of that badge, and each user's bronze, silver  *)
(* and gold counts are the numbers of that user's Award rows whose badge   *)
(* has that type.                                                          *)
(***************************************************************************)
C12_AwardCountersAreAwardCounts ==
  /\ \A b \in Badges : badges[b].count = AwardsOfBadge(b)
  /\ \A u \in Users :
       /\ profile[u].bronze_badges = AwardsOfType(u, BADGE_BRONZE)
       /\ profile[u].silver_badges = AwardsOfType(u, BADGE_SILVER)
       /\ profile[u].gold_badges = AwardsOfType(u, BADGE_GOLD)

\* The exceptions raised from inside a post_save or post_delete receiver.
ApplyFailures == {"DoesNotExist", "TypeError"}

(***************************************************************************)
(* C13: a record's creation or deletion and its counter changes are one    *)
(* atomic unit: a call in which apply fails leaves no row written or       *)
(* deleted and no counter or flag changed.                                 *)
(***************************************************************************)
C13_FailedApplyChangesNothing ==
  [][result' \in ApplyFailures =>
       UNCHANGED <<profile, posts, questions, answers, votes, badges, awards,
                   comments, revisions>>]_vars

(***************************************************************************)
(* C14: remove_vote for a user, post and type of which no vote exists, an  *)
(* anonymous user included, returns False, raises nothing and leaves every *)
(* vote, score, reputation and accepted flag as it was.                    *)
(***************************************************************************)
C14_RetractNothingIsNoFault ==
  [][(\E user \in Actors, post \in Posts, vote_type \in VOTE_TYPES :
        /\ CopiesIn(Vote(user, vote_type, post), votes) = 0
        /\ remove_vote(post, user, vote_type))
       => /\ result' = "False"
          /\ UNCHANGED <<profile, posts, questions, answers, votes, badges,
                         awards, comments, revisions>>]_vars

\* A retraction of a vote that does not exist, after another vote was cast.
C14_Witness ==
  /\ result = "False"
  /\ votes = SetToBag({Vote("u2", VOTE_UP, "p1")})
  /\ posts["p1"].score = 1
  /\ profile["u1"].score = 10

(***************************************************************************)
(* C15: in every state at most one vote exists for each author, post and   *)
(* type, whatever votes are cast and retracted.                            *)
(***************************************************************************)
C15_OneVotePerAuthorPostType ==
  \A v \in BagToSet(votes) : CopiesIn(v, votes) <= 1

(***************************************************************************)
(* C16: a record created in a raw import is stored and nothing is applied: *)
(* every score, reputation, badge count, comment, answer and revision      *)
(* count and every accepted flag stays as it was.                          *)
(***************************************************************************)
C16_RawImportAppliesNothing ==
  [][(result' = "loaded" /\ created' = created + 1) =>
       /\ \E kind \in MODELS_WITH_APPLY : \E rec \in Rows(kind)' :
            RowCount(kind, rec)' = RowCount(kind, rec) + 1
       /\ Counters(Store)' = Counters(Store)
       /\ questions' = questions
       /\ answers \subseteq answers']_vars

\* An imported upvote on p1 is stored; p1 and its author are where they were.
C16_Witness ==
  /\ result = "loaded"
  /\ votes = SetToBag({Vote("u2", VOTE_UP, "p1")})
  /\ posts["p1"].score = 0
  /\ profile["u1"].score = 0

(***************************************************************************)
(* C17: no counter update is lost when two requests change one counter at  *)
(* the same time: when both have finished, each post's score and each      *)
(* user's reputation hold the effects of both votes.                       *)
(***************************************************************************)
C17_NoLostUpdate ==
  (\A r \in Requests : requests[r].pc = "done") =>
    /\ \A p \in Posts : posts[p].score = VoteScoreOn(p)
    /\ \A u \in Users : profile[u].score = VoteReputationOf(u)

(***************************************************************************)
(* C18: in every state at most one Tag row exists for each tag name, also  *)
(* when two set_tags calls bring in one new name at the same time.         *)
(***************************************************************************)
C18_OneTagRowPerName ==
  \A i \in DOMAIN tags : \A j \in DOMAIN tags : tags[i].name = tags[j].name => i = j

(***************************************************************************)
(* C19: during set_tags a tag that is in the post's previous tag set and   *)
(* in the new one is left untouched: no step of the operation changes its  *)
(* count.  The step that clears the association is the first such step.    *)
(***************************************************************************)
C19_KeptTagsUntouched ==
  [][\A r \in Requests :
       (requests[r].pc = "idle" /\ requests'[r].pc = "get") =>
         \A k \in tagSet[requests'[r].post] :
           tags[k].name \in Range(requests'[r].names) =>
             tags'[k].count = tags[k].count]_vars

====
